---- MODULE Spec2Model ----
(***************************************************************************)
(* Model of src/analyze/serial_data_to_csv.py: the serial capture script   *)
(* that reads lines from a serial port and appends the 6-value samples to   *)
(* output.csv, counting gestures of numSamples samples each.                *)
(*                                                                          *)
(* Text is modelled as Python models it: a bytes object is a sequence of    *)
(* integers 0..255, a str is a sequence of Unicode code points.  The sink   *)
(* is the sequence of records written through the csv writer, each record   *)
(* the exact text writerow() produces.                                      *)
(***************************************************************************)
EXTENDS Integers, Sequences, FiniteSets, TLC

(***************************************************************************)
(* Bounds of the model.                                                     *)
(***************************************************************************)
\* Samples per gesture.  The script sets 119 (line 56); the value is a
\* configuration knob and the model runs it small so that gestures complete.
numSamples == 2

\* Number of ser.readline() calls explored.
MaxReads == 4

(***************************************************************************)
(* Text constants of the script.                                            *)
(***************************************************************************)
\* ',' : the separator of line.split(',') and the csv delimiter.
Comma == 44
\* '"' : the quote character of the csv "excel" dialect.
QuoteChar == 34
\* '\r' and '\n' : the csv line terminator "\r\n".
CR == 13
LF == 10

\* The literal 'aX,aY,aZ,gX,gY,gZ' of the startswith tests.
HeaderText ==
    <<97, 88, 44, 97, 89, 44, 97, 90, 44, 103, 88, 44, 103, 89, 44, 103, 90>>

\* The list ['aX', 'aY', 'aZ', 'gX', 'gY', 'gZ'] written as the first record.
HeaderRow ==
    << <<97, 88>>, <<97, 89>>, <<97, 90>>, <<103, 88>>, <<103, 89>>, <<103, 90>> >>

(***************************************************************************)
(* bytes.decode('utf-8') : strict UTF-8 decoding.                           *)
(***************************************************************************)
IsCont(b) == b >= 128 /\ b <= 191

\* Length of the well-formed UTF-8 sequence at the head of b, 0 if there is
\* none (invalid start byte, truncated or ill-formed continuation).
Utf8SeqLen(b) ==
    LET n == Len(b)
        b1 == b[1]
    IN  IF b1 < 128 THEN 1
        ELSE IF b1 >= 194 /\ b1 <= 223
            THEN IF n >= 2 /\ IsCont(b[2]) THEN 2 ELSE 0
        ELSE IF b1 >= 224 /\ b1 <= 239
            THEN IF /\ n >= 3 /\ IsCont(b[2]) /\ IsCont(b[3])
                    /\ (b1 = 224 => b[2] >= 160)
                    /\ (b1 = 237 => b[2] <= 159)
                 THEN 3 ELSE 0
        ELSE IF b1 >= 240 /\ b1 <= 244
            THEN IF /\ n >= 4 /\ IsCont(b[2]) /\ IsCont(b[3]) /\ IsCont(b[4])
                    /\ (b1 = 240 => b[2] >= 144)
                    /\ (b1 = 244 => b[2] <= 143)
                 THEN 4 ELSE 0
        ELSE 0

\* The code point encoded by the k bytes at the head of b.
Utf8CodePoint(b, k) ==
    IF k = 1 THEN b[1]
    ELSE IF k = 2 THEN (b[1] - 192) * 64 + (b[2] - 128)
    ELSE IF k = 3 THEN (b[1] - 224) * 4096 + (b[2] - 128) * 64 + (b[3] - 128)
    ELSE (b[1] - 240) * 262144 + (b[2] - 128) * 4096 + (b[3] - 128) * 64
             + (b[4] - 128)

RECURSIVE Utf8Decode(_)
\* [ok |-> TRUE, text |-> the str] or [ok |-> FALSE, ...] for the
\* UnicodeDecodeError that decode('utf-8') raises.
Utf8Decode(b) ==
    IF b = <<>> THEN [ok |-> TRUE, text |-> <<>>]
    ELSE LET k == Utf8SeqLen(b)
         IN  IF k = 0 THEN [ok |-> FALSE, text |-> <<>>]
             ELSE LET rest == Utf8Decode(SubSeq(b, k + 1, Len(b)))
                  IN  [ok |-> rest.ok,
                       text |-> IF rest.ok
                                THEN <<Utf8CodePoint(b, k)>> \o rest.text
                                ELSE <<>>]

(***************************************************************************)
(* str.strip() : remove leading and trailing whitespace.                    *)
(***************************************************************************)
\* The code points for which str.isspace() is true.
IsSpace(c) ==
    c \in (9..13) \cup (28..32) \cup {133, 160, 5760} \cup (8192..8202)
            \cup {8232, 8233, 8239, 8287, 12288}

RECURSIVE LStrip(_)
LStrip(s) ==
    IF s # <<>> /\ IsSpace(s[1]) THEN LStrip(Tail(s)) ELSE s

RECURSIVE RStrip(_)
RStrip(s) ==
    IF s # <<>> /\ IsSpace(s[Len(s)]) THEN RStrip(SubSeq(s, 1, Len(s) - 1)) ELSE s

Strip(s) == RStrip(LStrip(s))

(***************************************************************************)
(* str.startswith(prefix) and str.split(sep).                               *)
(***************************************************************************)
StartsWith(s, prefix) ==
    /\ Len(s) >= Len(prefix)
    /\ SubSeq(s, 1, Len(prefix)) = prefix

RECURSIVE Split(_, _)
\* s.split(sep) for a one-character sep: always at least one token.
Split(s, sep) ==
    IF \A i \in 1..Len(s) : s[i] # sep THEN <<s>>
    ELSE LET i == CHOOSE j \in 1..Len(s) :
                      s[j] = sep /\ \A k \in 1..(j - 1) : s[k] # sep
         IN  <<SubSeq(s, 1, i - 1)>> \o Split(SubSeq(s, i + 1, Len(s)), sep)

(***************************************************************************)
(* csv.writer(csvfile).writerow(values) : the "excel" dialect, with         *)
(* delimiter ',', quotechar '"', doublequote, QUOTE_MINIMAL and line        *)
(* terminator "\r\n".                                                       *)
(***************************************************************************)
\* A field is quoted when it holds the delimiter, the quote character or a
\* character of the line terminator.
NeedsQuote(field) ==
    \E i \in 1..Len(field) : field[i] \in {Comma, QuoteChar, CR, LF}

RECURSIVE DoubleQuotes(_)
\* Every quote character of the field is doubled.
DoubleQuotes(field) ==
    IF field = <<>> THEN <<>>
    ELSE (IF field[1] = QuoteChar THEN <<QuoteChar, QuoteChar>> ELSE <<field[1]>>)
             \o DoubleQuotes(Tail(field))

FormatField(field) ==
    IF NeedsQuote(field)
    THEN <<QuoteChar>> \o DoubleQuotes(field) \o <<QuoteChar>>
    ELSE field

RECURSIVE JoinFields(_)
JoinFields(values) ==
    IF Len(values) = 1 THEN FormatField(values[1])
    ELSE FormatField(values[1]) \o <<Comma>> \o JoinFields(Tail(values))

\* The text of one record; a record of a single empty field is written "".
WriteRow(values) ==
    (IF values = <<>> THEN <<>>
     ELSE IF Len(values) = 1 /\ values[1] = <<>>
     THEN <<QuoteChar, QuoteChar>>
     ELSE JoinFields(values)) \o <<CR, LF>>

(***************************************************************************)
(* What ser.readline() can return: the bytes of one line up to and          *)
(* including '\n', or whatever arrived before the 1 s timeout.              *)
(***************************************************************************)
\* b'' : the timeout with nothing received.
RawTimeout == <<>>
\* b'\xc2\xa0\r\n' : a no-break space and the line end, blank once stripped.
RawBlank == <<194, 160, CR, LF>>
\* b'aX,aY,aZ,gX,gY,gZ\r\n' : the header the Arduino sends at start-up.
RawHeader == HeaderText \o <<CR, LF>>
\* b'aX,aY,aZ,gX,gY,gZ,7\n' : 7 tokens, beginning with the header text.
RawHeaderPlus == HeaderText \o <<Comma, 55, LF>>
\* b'aX,aY,aZ,gX,gY,gZ0\n' : 6 tokens, beginning with the header text.
RawHeaderSix == HeaderText \o <<48, LF>>
\* b'1,2,3,4,5,6\r\n'
RawSampleA == <<49, 44, 50, 44, 51, 44, 52, 44, 53, 44, 54, CR, LF>>
\* b'7,8,9,10,11,12\n'
RawSampleB == <<55, 44, 56, 44, 57, 44, 49, 48, 44, 49, 49, 44, 49, 50, LF>>
\* b'",,1\r2, 3,\xc3\xa9,\n' : 6 tokens, among them a quote, two empty
\* tokens, a token with a carriage return inside and a non-ASCII token.
RawSampleQ == <<34, 44, 44, 49, CR, 50, 44, 32, 51, 44, 195, 169, 44, LF>>
\* b'1,2,3\n' : 3 tokens.
RawShort == <<49, 44, 50, 44, 51, LF>>
\* b'1,2,3,4,5,6,7\n' : 7 tokens.
RawLong == <<49, 44, 50, 44, 51, 44, 52, 44, 53, 44, 54, 44, 55, LF>>
\* b'1,\xff\n' : 0xFF is no UTF-8.
RawGarbage == <<49, 44, 255, LF>>

RawLines ==
    {RawTimeout, RawBlank, RawHeader, RawHeaderPlus, RawHeaderSix, RawSampleA,
     RawSampleB, RawSampleQ, RawShort, RawLong, RawGarbage}

\* The content of output.csv left by an earlier capture: header and a sample.
OldContent ==
    <<WriteRow(HeaderRow), WriteRow(Split(Strip(Utf8Decode(RawSampleB).text), Comma))>>

(***************************************************************************)
(* State of the script.                                                     *)
(***************************************************************************)
VARIABLES
    pc,                  \* the statement about to execute
    ser,                 \* the serial port: unopened, open, closed, failed
    csvfile,             \* output.csv: unopened, open, closed, failed
    sink,                \* the records of output.csv
    line,                \* the variable line (line 99)
    values,              \* the variable values (line 111)
    samples_collected,   \* the variable samples_collected (bound at line 89
                         \* and read by no statement before it; 0 until then)
    Number_of_gestures,  \* the variable Number_of_gestures (line 60)
    out,                 \* what print() has written to the console
    exc,                 \* the exception propagating, "none" if none
    reads,               \* number of ser.readline() calls made
    serCloses,           \* number of times the port was closed
    csvCloses,           \* number of times the file was closed
    misuse,              \* a read or write was made on a handle not open
    intrAt               \* the statements at which Ctrl+C arrived

vars ==
    <<pc, ser, csvfile, sink, line, values, samples_collected,
      Number_of_gestures, out, exc, reads, serCloses, csvCloses, misuse, intrAt>>

\* One print() event.
Msg(kind, a, b, text) == [kind |-> kind, a |-> a, b |-> b, text |-> text]

\* The statements of the try block (lines 91-153).
TryPcs ==
    {"read", "check", "write", "incr", "test", "notify_saved", "reset",
     "count_gesture", "notify_total", "warn"}

\* The statements inside "with open(...) as csvfile" (lines 75-165).
CsvBlockPcs == TryPcs \cup {"header", "banner", "init", "summary"}

\* A variant of RaiseTarget for a script written without the with blocks:
\* an exception leaves the script with nothing closed.
RaiseTargetNoCleanup(p) == "done"

\* Where an exception raised by the statement at p and not caught by the
\* except clause goes: out of the with blocks entered so far, each closing
\* its handle on the way, then out of the script.
RaiseTarget(p) ==
    IF p \in CsvBlockPcs THEN "exit_csv"
    ELSE IF p = "open_csv" THEN "exit_ser"
    ELSE IF p \in {"exit_csv", "exit_ser"} THEN p
    ELSE "done"

\* "except KeyboardInterrupt" (line 159) catches what the try block raises.
Caught(p, e) == e = "KeyboardInterrupt" /\ p \in TryPcs

\* A variant of IsData that does not filter the header: "if line".
IsDataNoHeaderFilter(l) == l # <<>>

\* A variant of IsData that does not test for the empty line.
IsDataNoEmptyCheck(l) == ~StartsWith(l, HeaderText)

\* line 107: if line and not line.startswith('aX,aY,aZ,gX,gY,gZ')
IsData(l) == l # <<>> /\ ~StartsWith(l, HeaderText)

\* line 150: elif line.startswith('aX,aY,aZ,gX,gY,gZ')
IsHeaderEcho(l) == StartsWith(l, HeaderText)

\* line 115: the 6 of "len(values) == 6" and of the warning text.
ExpectedValues == 6

\* A variant of IsSample that accepts longer lines: "len(values) >= 6".
IsSampleAtLeast(v) == Len(v) >= ExpectedValues

\* line 115: if len(values) == 6
IsSample(v) == Len(v) = ExpectedValues

\* A variant of GestureComplete that is off by one: "> numSamples".
GestureCompleteLate(s) == s > numSamples

\* line 127: if samples_collected == numSamples
GestureComplete(s) == s = numSamples

\* line 164: samples_collected + (Number_of_gestures * numSamples)
TotalSamples(s, g) == s + (g * numSamples)

Init ==
    /\ pc = "open_ser"
    /\ ser = "unopened"
    /\ csvfile = "unopened"
    /\ sink = OldContent
    /\ line = <<>>
    /\ values = <<>>
    /\ samples_collected = 0
    /\ Number_of_gestures = 0
    /\ out = <<>>
    /\ exc = "none"
    /\ reads = 0
    /\ serCloses = 0
    /\ csvCloses = 0
    /\ misuse = FALSE
    /\ intrAt = {}

(***************************************************************************)
(* Start-up (lines 69-89).                                                  *)
(***************************************************************************)
\* line 69: serial.Serial(SERIAL_PORT, BAUD_RATE, timeout=1) opens the port.
OpenSer ==
    /\ pc = "open_ser"
    /\ ser' = "open"
    /\ pc' = "open_csv"
    /\ UNCHANGED <<csvfile, sink, line, values, samples_collected,
                   Number_of_gestures, out, exc, reads, serCloses, csvCloses,
                   misuse, intrAt>>

\* A variant of OpenSerFails in which the failure is swallowed and the
\* script goes on to open the file.
OpenSerFailsIgnored ==
    /\ pc = "open_ser"
    /\ ser' = "failed"
    /\ pc' = "open_csv"
    /\ UNCHANGED <<csvfile, sink, line, values, samples_collected,
                   Number_of_gestures, out, exc, reads, serCloses, csvCloses,
                   misuse, intrAt>>

\* line 69: the port cannot be opened; SerialException leaves the script.
OpenSerFails ==
    /\ pc = "open_ser"
    /\ ser' = "failed"
    /\ exc' = "SerialException"
    /\ pc' = RaiseTarget(pc)
    /\ UNCHANGED <<csvfile, sink, line, values, samples_collected,
                   Number_of_gestures, out, reads, serCloses, csvCloses,
                   misuse, intrAt>>

\* line 73: open('output.csv', 'w', newline='') creates or truncates the file.
OpenCsv ==
    /\ pc = "open_csv"
    /\ csvfile' = "open"
    /\ sink' = <<>>
    /\ pc' = "header"
    /\ UNCHANGED <<ser, line, values, samples_collected, Number_of_gestures,
                   out, exc, reads, serCloses, csvCloses, misuse, intrAt>>

\* line 73: the file cannot be opened; OSError leaves the outer with block.
OpenCsvFails ==
    /\ pc = "open_csv"
    /\ csvfile' = "failed"
    /\ exc' = "OSError"
    /\ pc' = RaiseTarget(pc)
    /\ UNCHANGED <<ser, sink, line, values, samples_collected,
                   Number_of_gestures, out, reads, serCloses, csvCloses,
                   misuse, intrAt>>

\* lines 75-79: writer = csv.writer(csvfile); writer.writerow([...header...])
WriteHeader ==
    /\ pc = "header"
    /\ sink' = Append(sink, WriteRow(HeaderRow))
    /\ misuse' = (misuse \/ csvfile # "open")
    /\ pc' = "banner"
    /\ UNCHANGED <<ser, csvfile, line, values, samples_collected,
                   Number_of_gestures, out, exc, reads, serCloses, csvCloses,
                   intrAt>>

\* lines 82-85: the start-up messages.
Banner ==
    /\ pc = "banner"
    /\ out' = Append(out, Msg("banner", numSamples, 0, <<>>))
    /\ pc' = "init"
    /\ UNCHANGED <<ser, csvfile, sink, line, values, samples_collected,
                   Number_of_gestures, exc, reads, serCloses, csvCloses,
                   misuse, intrAt>>

\* line 89: samples_collected = 0
InitCounter ==
    /\ pc = "init"
    /\ samples_collected' = 0
    /\ pc' = "read"
    /\ UNCHANGED <<ser, csvfile, sink, line, values, Number_of_gestures, out,
                   exc, reads, serCloses, csvCloses, misuse, intrAt>>

(***************************************************************************)
(* The capture loop (lines 94-153).                                         *)
(***************************************************************************)
\* line 99: line = ser.readline().decode('utf-8').strip()
\* decode raises UnicodeDecodeError, which no except clause catches.
ReadLine ==
    /\ pc = "read"
    /\ reads < MaxReads
    /\ \E raw \in RawLines :
         LET d == Utf8Decode(raw)
         IN  IF d.ok
             THEN /\ line' = Strip(d.text)
                  /\ pc' = "check"
                  /\ exc' = exc
             ELSE /\ line' = line
                  /\ exc' = "UnicodeDecodeError"
                  /\ pc' = RaiseTarget(pc)
    /\ reads' = reads + 1
    /\ misuse' = (misuse \/ ser # "open")
    /\ UNCHANGED <<ser, csvfile, sink, values, samples_collected,
                   Number_of_gestures, out, serCloses, csvCloses, intrAt>>

\* lines 107-115 and 150-153: classify the line; values = line.split(',')
Check ==
    /\ pc = "check"
    /\ IF IsData(line)
       THEN /\ values' = Split(line, Comma)
            /\ pc' = IF IsSample(values') THEN "write" ELSE "warn"
       ELSE IF IsHeaderEcho(line)
       THEN /\ values' = values      \* pass
            /\ pc' = "read"
       ELSE /\ values' = values
            /\ pc' = "read"
    /\ UNCHANGED <<ser, csvfile, sink, line, samples_collected,
                   Number_of_gestures, out, exc, reads, serCloses, csvCloses,
                   misuse, intrAt>>

\* A variant of WriteSample that writes the line as one field:
\* "writer.writerow([line])".
WriteSampleWholeLine ==
    /\ pc = "write"
    /\ sink' = Append(sink, WriteRow(<<line>>))
    /\ misuse' = (misuse \/ csvfile # "open")
    /\ pc' = "incr"
    /\ UNCHANGED <<ser, csvfile, line, values, samples_collected,
                   Number_of_gestures, out, exc, reads, serCloses, csvCloses,
                   intrAt>>

\* line 118: writer.writerow(values)
WriteSample ==
    /\ pc = "write"
    /\ sink' = Append(sink, WriteRow(values))
    /\ misuse' = (misuse \/ csvfile # "open")
    /\ pc' = "incr"
    /\ UNCHANGED <<ser, csvfile, line, values, samples_collected,
                   Number_of_gestures, out, exc, reads, serCloses, csvCloses,
                   intrAt>>

\* line 121: samples_collected += 1
Increment ==
    /\ pc = "incr"
    /\ samples_collected' = samples_collected + 1
    /\ pc' = "test"
    /\ UNCHANGED <<ser, csvfile, sink, line, values, Number_of_gestures, out,
                   exc, reads, serCloses, csvCloses, misuse, intrAt>>

\* line 127: if samples_collected == numSamples
TestComplete ==
    /\ pc = "test"
    /\ pc' = IF GestureComplete(samples_collected) THEN "notify_saved" ELSE "read"
    /\ UNCHANGED <<ser, csvfile, sink, line, values, samples_collected,
                   Number_of_gestures, out, exc, reads, serCloses, csvCloses,
                   misuse, intrAt>>

\* lines 129-130: "N samples have been saved." / "... complete for one gesture."
NotifySaved ==
    /\ pc = "notify_saved"
    /\ out' = Append(out, Msg("saved", numSamples, 0, <<>>))
    /\ pc' = "reset"
    /\ UNCHANGED <<ser, csvfile, sink, line, values, samples_collected,
                   Number_of_gestures, exc, reads, serCloses, csvCloses,
                   misuse, intrAt>>

\* line 133: samples_collected = 0
Reset ==
    /\ pc = "reset"
    /\ samples_collected' = 0
    /\ pc' = "count_gesture"
    /\ UNCHANGED <<ser, csvfile, sink, line, values, Number_of_gestures, out,
                   exc, reads, serCloses, csvCloses, misuse, intrAt>>

\* line 136: Number_of_gestures += 1
CountGesture ==
    /\ pc = "count_gesture"
    /\ Number_of_gestures' = Number_of_gestures + 1
    /\ pc' = "notify_total"
    /\ UNCHANGED <<ser, csvfile, sink, line, values, samples_collected, out,
                   exc, reads, serCloses, csvCloses, misuse, intrAt>>

\* lines 139-142: "Total gestures captured: g" / "Ready for next gesture..."
NotifyTotal ==
    /\ pc = "notify_total"
    /\ out' = Append(out, Msg("gestures", Number_of_gestures, 0, <<>>))
    /\ pc' = "read"
    /\ UNCHANGED <<ser, csvfile, sink, line, values, samples_collected,
                   Number_of_gestures, exc, reads, serCloses, csvCloses,
                   misuse, intrAt>>

\* line 147: "Warning: Unexpected line format (expected 6 values, got n): line"
Warn ==
    /\ pc = "warn"
    /\ out' = Append(out, Msg("warning", ExpectedValues, Len(values), line))
    /\ pc' = "read"
    /\ UNCHANGED <<ser, csvfile, sink, line, values, samples_collected,
                   Number_of_gestures, exc, reads, serCloses, csvCloses,
                   misuse, intrAt>>

(***************************************************************************)
(* Shutdown (lines 159-180).                                                *)
(***************************************************************************)
\* lines 160-165: the body of "except KeyboardInterrupt".
Summary ==
    /\ pc = "summary"
    /\ out' = Append(out, Msg("summary", Number_of_gestures,
                              TotalSamples(samples_collected, Number_of_gestures),
                              <<>>))
    /\ pc' = "exit_csv"
    /\ UNCHANGED <<ser, csvfile, sink, line, values, samples_collected,
                   Number_of_gestures, exc, reads, serCloses, csvCloses,
                   misuse, intrAt>>

\* line 73: leaving "with open(...) as csvfile" closes the file.
ExitCsv ==
    /\ pc = "exit_csv"
    /\ csvfile' = "closed"
    /\ csvCloses' = csvCloses + 1
    /\ misuse' = (misuse \/ csvfile # "open")
    /\ pc' = "exit_ser"
    /\ UNCHANGED <<ser, sink, line, values, samples_collected,
                   Number_of_gestures, out, exc, reads, serCloses, intrAt>>

\* line 69: leaving "with serial.Serial(...) as ser" closes the port; the
\* script goes on to line 171 unless an exception is propagating.
ExitSer ==
    /\ pc = "exit_ser"
    /\ ser' = "closed"
    /\ serCloses' = serCloses + 1
    /\ misuse' = (misuse \/ ser # "open")
    /\ pc' = IF exc = "none" THEN "final" ELSE "done"
    /\ UNCHANGED <<csvfile, sink, line, values, samples_collected,
                   Number_of_gestures, out, exc, reads, csvCloses, intrAt>>

\* lines 171-180: the final message.
Final ==
    /\ pc = "final"
    /\ out' = Append(out, Msg("final", 0, 0, <<>>))
    /\ pc' = "done"
    /\ UNCHANGED <<ser, csvfile, sink, line, values, samples_collected,
                   Number_of_gestures, exc, reads, serCloses, csvCloses,
                   misuse, intrAt>>

\* Ctrl+C: KeyboardInterrupt is raised in the main thread before the
\* statement at pc.  Inside the try block line 159 catches it; anywhere else
\* it propagates like any other exception.
Interrupt ==
    /\ pc # "done"
    /\ intrAt' = intrAt \cup {pc}
    /\ IF Caught(pc, "KeyboardInterrupt")
       THEN /\ pc' = "summary"
            /\ exc' = exc
       ELSE /\ pc' = RaiseTarget(pc)
            /\ exc' = "KeyboardInterrupt"
    /\ UNCHANGED <<ser, csvfile, sink, line, values, samples_collected,
                   Number_of_gestures, out, reads, serCloses, csvCloses, misuse>>

Next ==
    \/ OpenSer
    \/ OpenSerFails
    \/ OpenCsv
    \/ OpenCsvFails
    \/ WriteHeader
    \/ Banner
    \/ InitCounter
    \/ ReadLine
    \/ Check
    \/ WriteSample
    \/ Increment
    \/ TestComplete
    \/ NotifySaved
    \/ Reset
    \/ CountGesture
    \/ NotifyTotal
    \/ Warn
    \/ Summary
    \/ ExitCsv
    \/ ExitSer
    \/ Final
    \/ Interrupt

Spec == Init /\ [][Next]_vars

(***************************************************************************)
(* Vocabulary of the properties.                                            *)
(***************************************************************************)
\* The step is the arrival of Ctrl+C.
Interrupted == intrAt' # intrAt

\* The record writerow() produces for the header.
HeaderRecord == WriteRow(HeaderRow)

\* Number of data records in the sink, once the header is in it.
DataRows == Len(sink) - 1

\* The tokens of a trimmed line.
Tokens(l) == Split(l, Comma)

\* A sample line: not empty, not taken for the header, 6 tokens.
ValidLine(l) == l # <<>> /\ ~StartsWith(l, HeaderText) /\ Len(Tokens(l)) = 6

\* The print() events of one kind, in order.
Printed(kind) == SelectSeq(out, LAMBDA m : m.kind = kind)

\* The statements from which the loop has not yet touched the sink or the
\* counters for the line in hand.
LoopHead == {"read", "check", "warn", "write"}

\* The state the capture of samples rests on.
captureState == <<sink, out, samples_collected, Number_of_gestures>>

RECURSIVE ParseRecord(_, _, _, _)
\* What csv.reader returns for the text of one record: the fields, with the
\* quoting undone.  mode is the reader's state, fields the fields so far.
ParseRecord(text, i, mode, fields) ==
    LET n == Len(fields)
        add(c) == [fields EXCEPT ![n] = Append(@, c)]
        newField == Append(fields, <<>>)
    IN  IF i > Len(text) THEN fields
        ELSE LET c == text[i]
             IN  IF mode = "quoted"
                 THEN IF c = QuoteChar
                      THEN ParseRecord(text, i + 1, "quote_in_quoted", fields)
                      ELSE ParseRecord(text, i + 1, "quoted", add(c))
                 ELSE IF c = QuoteChar
                 THEN IF mode = "start"
                      THEN ParseRecord(text, i + 1, "quoted", fields)
                      ELSE IF mode = "quote_in_quoted"
                      THEN ParseRecord(text, i + 1, "quoted", add(c))
                      ELSE ParseRecord(text, i + 1, "plain", add(c))
                 ELSE IF c = Comma
                 THEN ParseRecord(text, i + 1, "start", newField)
                 ELSE IF c \in {CR, LF} THEN fields
                 ELSE ParseRecord(text, i + 1, "plain", add(c))

ReadRecord(text) == ParseRecord(text, 1, "start", << <<>> >>)

(***************************************************************************)
(* C1.  On interrupt after k full gestures plus r further valid samples,    *)
(* at whatever point of the capture loop the interrupt arrives, the         *)
(* reported "Total samples saved" equals k*N + r and the sink holds         *)
(* exactly 1 + k*N + r records: the total of every summary printed is the   *)
(* number of data records in the sink.                                      *)
(***************************************************************************)
C1_TotalMatchesSink ==
    \A i \in DOMAIN out :
        out[i].kind = "summary" =>
            /\ Len(sink) = 1 + out[i].b
            /\ out[i].b = out[i].a * numSamples + (DataRows % numSamples)

(***************************************************************************)
(* C2, as claimed.  Every line that is not empty once trimmed and whose     *)
(* token count is not 6 is warned about, nothing is written and the         *)
(* counters stay; the only line dropped without a warning is the header     *)
(* text itself.                                                             *)
(***************************************************************************)
C2_WarnsUnlessHeaderItself ==
    [][(pc = "check" /\ line # <<>> /\ ~Interrupted) =>
          /\ (Len(Tokens(line)) # 6 =>
                 /\ pc' = "warn"
                 /\ UNCHANGED <<sink, samples_collected, Number_of_gestures>>)
          /\ (pc' = "read" => line = HeaderText)]_vars

(***************************************************************************)
(* C2, amended.  Every line that is not empty once trimmed, does not begin  *)
(* with the header text and whose token count is not 6 is warned about      *)
(* (expected 6, the actual count and the line), nothing is written and the  *)
(* counters stay; the lines dropped without a warning are exactly the lines *)
(* that begin with the header text, whatever follows it, and the empty      *)
(* ones.                                                                    *)
(***************************************************************************)
C2_WarnsUnlessHeaderPrefix ==
    [][/\ (pc = "check" /\ line # <<>> /\ ~StartsWith(line, HeaderText)
              /\ Len(Tokens(line)) # 6 /\ ~Interrupted) =>
              /\ pc' = "warn"
              /\ UNCHANGED <<sink, out, samples_collected, Number_of_gestures>>
       /\ (pc = "warn" /\ ~Interrupted) =>
              /\ Len(Tokens(line)) # 6
              /\ out' = Append(out, Msg("warning", 6, Len(Tokens(line)), line))
              /\ pc' = "read"
              /\ UNCHANGED <<sink, samples_collected, Number_of_gestures>>
       /\ (pc = "check" /\ StartsWith(line, HeaderText) /\ ~Interrupted) =>
              /\ pc' = "read"
              /\ UNCHANGED <<sink, out, samples_collected, Number_of_gestures>>
       /\ (pc = "check" /\ pc' = "read") =>
              (line = <<>> \/ StartsWith(line, HeaderText))
       /\ (out' # out /\ Len(out') > 0 /\ out'[Len(out')].kind = "warning") =>
              pc = "warn"]_vars

\* C2, witness.  A 3-token line was warned about, and then a 7-token line
\* beginning with the header text went by with nothing printed and nothing
\* written.
C2_Witness ==
    /\ pc = "read"
    /\ line = HeaderText \o <<Comma, 55>>
    /\ Len(Printed("warning")) = 1
    /\ Printed("warning")[1].b = 3
    /\ Len(out) = 2
    /\ Len(sink) = 1

(***************************************************************************)
(* C3.  A line whose bytes cannot be decoded is discarded and the loop      *)
(* goes on with the next line: the read does not end the process, writes    *)
(* no record and leaves both counters alone.                                *)
(***************************************************************************)
C3_UndecodableLineIsSkipped ==
    [][(pc = "read" /\ reads' = reads + 1) =>
          /\ pc' \in {"read", "check"}
          /\ exc' = "none"
          /\ UNCHANGED <<sink, samples_collected, Number_of_gestures>>]_vars

\* The steps of the loop on a valid line (used by C4).
C4_Steps ==
    /\ (pc = "check" /\ ValidLine(line) /\ ~Interrupted) =>
           /\ pc' = "write"
           /\ values' = Tokens(line)
           /\ UNCHANGED <<sink, samples_collected>>
    /\ (pc = "write" /\ ~Interrupted) =>
           /\ ValidLine(line)
           /\ Len(sink') = Len(sink) + 1
           /\ SubSeq(sink', 1, Len(sink)) = sink
           /\ ReadRecord(sink'[Len(sink')]) = Tokens(line)
           /\ Len(ReadRecord(sink'[Len(sink')])) = 6
           /\ pc' = "incr"
    /\ (pc = "incr" /\ ~Interrupted) =>
           /\ samples_collected' = samples_collected + 1
           /\ sink' = sink
    /\ (pc \in TryPcs /\ sink' # sink) => pc = "write"
    /\ (pc \in {"test", "notify_total"} /\ pc' = "read") =>
           /\ samples_collected' = DataRows % numSamples
           /\ sink' = sink

(***************************************************************************)
(* C4.  Each valid 6-token line appends exactly one record to the sink,     *)
(* which reads back as its 6 tokens; records are only ever added at the     *)
(* end, in arrival order, and only for such a line; and the line takes      *)
(* samples_collected from s to (s + 1) mod N, so that between lines it is   *)
(* the number of data records mod N.                                        *)
(***************************************************************************)
C4_OneRowPerValidLine ==
    /\ [](pc \in LoopHead =>
            /\ samples_collected = DataRows % numSamples
            /\ samples_collected \in 0..(numSamples - 1))
    /\ [][C4_Steps]_vars

\* C4, witness.  Two valid lines have been written, the second with quoted
\* fields, and the loop is back at the read.
C4_Witness ==
    /\ pc = "read"
    /\ Len(sink) = 3
    /\ ReadRecord(sink[2]) = Tokens(Strip(Utf8Decode(RawSampleA).text))
    /\ ReadRecord(sink[3]) = Tokens(Strip(Utf8Decode(RawSampleQ).text))
    /\ sink[3] # Strip(Utf8Decode(RawSampleQ).text) \o <<CR, LF>>

\* The counters and notifications between lines (used by C5).
C5_Counts ==
    pc \in LoopHead =>
        /\ Number_of_gestures = DataRows \div numSamples
        /\ samples_collected = DataRows % numSamples
        /\ Len(Printed("saved")) = Number_of_gestures
        /\ Len(Printed("gestures")) = Number_of_gestures
        /\ \A i \in 1..Number_of_gestures :
               /\ Printed("gestures")[i].a = i
               /\ Printed("saved")[i].a = numSamples

\* The steps that count and announce a gesture (used by C5).
C5_Steps ==
    /\ Number_of_gestures' # Number_of_gestures =>
           /\ Number_of_gestures' = Number_of_gestures + 1
           /\ samples_collected' = 0
           /\ DataRows >= numSamples
           /\ DataRows % numSamples = 0
    /\ (pc = "notify_total" /\ ~Interrupted) =>
           out' = Append(out, Msg("gestures", DataRows \div numSamples, 0, <<>>))

(***************************************************************************)
(* C5.  From samples_collected = 0, N valid lines raise gesture_count by    *)
(* exactly 1 and bring samples_collected back to 0, with exactly one        *)
(* batch-complete notification, which reports gesture_count after the       *)
(* increment; fewer than N valid lines never change gesture_count.          *)
(***************************************************************************)
C5_GesturePerNSamples == []C5_Counts /\ [][C5_Steps]_vars

\* C5, witness.  One gesture is complete and notified, the loop is back at
\* the read.
C5_Witness ==
    /\ pc = "read"
    /\ Number_of_gestures = 1
    /\ samples_collected = 0
    /\ DataRows = numSamples
    /\ Printed("gestures") = <<Msg("gestures", 1, 0, <<>>)>>

\* The sink holds the header record once, first (used by C6).
HeaderOnceFirst ==
    /\ Len(sink) >= 1
    /\ sink[1] = HeaderRecord
    /\ Cardinality({i \in DOMAIN sink : sink[i] = HeaderRecord}) = 1
    /\ \A i \in 2..Len(sink) : ReadRecord(sink[i]) # HeaderRow

(***************************************************************************)
(* C6, as claimed.  In every reachable state the sink holds the header      *)
(* record exactly once, as its first record.                                *)
(***************************************************************************)
C6_HeaderOnceAlways == HeaderOnceFirst

\* The header write of line 79 has executed (used by C6).
HeaderWritten ==
    /\ csvfile \in {"open", "closed"}
    /\ pc # "header"
    /\ "header" \notin intrAt

(***************************************************************************)
(* C6, amended.  From the header write of line 79 on, the sink holds the    *)
(* header record exactly once, as its first record, however often the       *)
(* source sends the header line; between the truncation of line 73 and      *)
(* that write - for good, when the script is interrupted in between - the   *)
(* sink is empty.                                                           *)
(***************************************************************************)
C6_HeaderOnceOnceWritten ==
    /\ HeaderWritten => HeaderOnceFirst
    /\ (csvfile \in {"open", "closed"} /\ ~HeaderWritten) => sink = <<>>

\* C6, witness.  The source has just sent the header line after a sample, the
\* line was dropped and the sink still holds the one header.
C6_Witness ==
    /\ pc = "read"
    /\ line = HeaderText
    /\ reads >= 2
    /\ Len(sink) = 2
    /\ HeaderOnceFirst

(***************************************************************************)
(* C7.  On every exit path the port and the file, once acquired, are each   *)
(* released exactly once, and neither is used after its release.            *)
(***************************************************************************)
C7_ReleasedExactlyOnce ==
    /\ ~misuse
    /\ serCloses = (IF ser = "closed" THEN 1 ELSE 0)
    /\ csvCloses = (IF csvfile = "closed" THEN 1 ELSE 0)
    /\ (pc \in {"final", "done"} => ser # "open" /\ csvfile # "open")
    /\ (ser \in {"unopened", "failed"} => pc \in {"open_ser", "done"})
    /\ (csvfile = "open" => ser = "open")

\* C7, witness.  The script has ended on a Ctrl+C that arrived during the
\* read, after a sample was written; both handles are closed.
C7_Witness ==
    /\ pc = "done"
    /\ "read" \in intrAt
    /\ Len(sink) = 2
    /\ ser = "closed" /\ serCloses = 1
    /\ csvfile = "closed" /\ csvCloses = 1

(***************************************************************************)
(* C8.  Ctrl+C arriving at any point after the port and the file have been  *)
(* opened is never an error: the script ends normally, having printed the   *)
(* summary and then the final message, with the records written still in    *)
(* the sink.                                                                *)
(***************************************************************************)
C8_InterruptEndsGracefully ==
    (pc = "done" /\ intrAt # {} /\ intrAt \subseteq CsvBlockPcs) =>
        /\ exc = "none"
        /\ \E i, j \in DOMAIN out :
               i < j /\ out[i].kind = "summary" /\ out[j].kind = "final"

(***************************************************************************)
(* C9.  A set-up failure aborts before any data is captured: when the port  *)
(* cannot be opened the file is neither opened nor truncated and no header  *)
(* is written; when the file cannot be opened no line is read; either way   *)
(* nothing is printed, no summary and no final message.                     *)
(***************************************************************************)
C9_SetupFailureAborts ==
    /\ ser = "failed" =>
           /\ pc = "done"
           /\ exc # "none"
           /\ csvfile = "unopened"
           /\ sink = OldContent
           /\ reads = 0
           /\ out = <<>>
    /\ csvfile = "failed" =>
           /\ pc \in {"exit_ser", "done"}
           /\ exc # "none"
           /\ sink = OldContent
           /\ reads = 0
           /\ out = <<>>

\* C9, witness.  The file could not be opened; the script has ended, the port
\* closed.
C9_Witness ==
    /\ pc = "done"
    /\ csvfile = "failed"
    /\ ser = "closed"
    /\ exc = "OSError"

(***************************************************************************)
(* C10.  A read that times out (a line empty once trimmed) writes no        *)
(* record, prints no warning, leaves both counters alone and takes the      *)
(* loop straight back to the read, everything the capture rests on being    *)
(* as it was before the timeout.                                            *)
(***************************************************************************)
C10_TimeoutIsNoOp ==
    [][/\ (pc = "read" /\ pc' = "check" /\ line' = <<>>) =>
              UNCHANGED <<captureState, values, ser, csvfile, exc>>
       /\ (pc = "check" /\ line = <<>> /\ ~Interrupted) =>
              /\ pc' = "read"
              /\ UNCHANGED <<captureState, values, ser, csvfile, exc>>]_vars

\* C10, witness.  A timeout came after a valid line and the loop is back at
\* the read.
C10_Witness ==
    /\ pc = "read"
    /\ line = <<>>
    /\ reads = 2
    /\ Len(sink) = 2
    /\ Len(out) = 1

====
